---- MODULE Spec2Model ----
(***************************************************************************)
(* OSCtoAtem: the Mapper class of mapper.py (capability discovery, address *)
(* resolution, argument adaptation, routing, side-channel commands) and    *)
(* the start-up script main of osctoatem.py.                               *)
(*                                                                         *)
(* Python strings that the code inspects character by character (OSC       *)
(* addresses, attribute names, cache keys) are sequences of one-character  *)
(* strings, so that startswith, slicing, lstrip, lower and the `in`        *)
(* substring test are computed as Python computes them.                    *)
(***************************************************************************)
EXTENDS Integers, Sequences, FiniteSets, TLC

(* ------------------------------------------------------------------ *)
(* Bounds                                                              *)
(* ------------------------------------------------------------------ *)

\* longest OSC argument list delivered to the handler
MaxArgs == 3

(* ------------------------------------------------------------------ *)
(* Python string primitives                                            *)
(* ------------------------------------------------------------------ *)

UpperCase == {"A","B","C","D","E","F","G","H","I","J","K","L","M",
              "N","O","P","Q","R","S","T","U","V","W","X","Y","Z"}

LowerOf ==
  [c \in UpperCase |->
     CASE c = "A" -> "a" [] c = "B" -> "b" [] c = "C" -> "c" [] c = "D" -> "d"
       [] c = "E" -> "e" [] c = "F" -> "f" [] c = "G" -> "g" [] c = "H" -> "h"
       [] c = "I" -> "i" [] c = "J" -> "j" [] c = "K" -> "k" [] c = "L" -> "l"
       [] c = "M" -> "m" [] c = "N" -> "n" [] c = "O" -> "o" [] c = "P" -> "p"
       [] c = "Q" -> "q" [] c = "R" -> "r" [] c = "S" -> "s" [] c = "T" -> "t"
       [] c = "U" -> "u" [] c = "V" -> "v" [] c = "W" -> "w" [] c = "X" -> "x"
       [] c = "Y" -> "y" [] OTHER -> "z"]

\* str.lower()
Lower(s) == [i \in 1..Len(s) |-> IF s[i] \in UpperCase THEN LowerOf[s[i]] ELSE s[i]]

\* str.lstrip('/')
RECURSIVE LStripSlash(_)
LStripSlash(s) ==
  IF s # <<>> /\ Head(s) = "/" THEN LStripSlash(Tail(s)) ELSE s

\* str.startswith(p)
StartsWith(s, p) == Len(p) <= Len(s) /\ SubSeq(s, 1, Len(p)) = p

\* s[n:]
SliceFrom(s, n) == SubSeq(s, n + 1, Len(s))

\* s[:n]
SliceTo(s, n) == SubSeq(s, 1, IF n < Len(s) THEN n ELSE Len(s))

\* `sub in s` for strings
Contains(s, sub) ==
  \E i \in 0..Len(s) : i + Len(sub) <= Len(s) /\ SubSeq(s, i + 1, i + Len(sub)) = sub

(* ------------------------------------------------------------------ *)
(* String literals of the program                                      *)
(* ------------------------------------------------------------------ *)

RawAtemPrefix == <<"/","r","a","w","/","a","t","e","m","/">>
RawHdPrefix   == <<"/","r","a","w","/","h","d","/">>
LoadClipAddr  == <<"/","h","d","/","l","o","a","d","_","c","l","i","p">>
RecordOnAddr  == <<"/","a","t","e","m","/","r","e","c","o","r","d","_","o","n">>
RecordOffAddr == <<"/","a","t","e","m","/","r","e","c","o","r","d","_","o","f","f">>
StreamOnAddr  == <<"/","a","t","e","m","/","s","t","r","e","a","m","_","o","n">>
StreamOffAddr == <<"/","a","t","e","m","/","s","t","r","e","a","m","_","o","f","f">>
PingAddr      == <<"/","p","i","n","g">>
Prefixes_mut  == << <<"s","e","t">>, <<"e","x","e","c">>, <<"g","e","t">> >>
Prefixes      == << <<"e","x","e","c">>, <<"s","e","t">>, <<"g","e","t">> >>

\* lengths the code slices the raw prefixes off with
RawAtemCut == 10
\* the slice length of the switcher branch copied into the recorder branch
RawHdCut_mut == RawAtemCut
RawHdCut   == 8
\* the control port of the side channel
ControlPort == 9993

None == [none |-> TRUE]


(* ------------------------------------------------------------------ *)
(* Device-control collaborators                                         *)
(* ------------------------------------------------------------------ *)

\* An attribute of a collaborator as dir()/getattr/inspect.signature see it.
Attr(n, c, i, p) == [name |-> n, callable |-> c, inspectable |-> i, nparams |-> p]

\* dir(switcher): sorted by code point.  Entries 1, 5, 7 are always there
\* (a private method, a data attribute, a callable without a signature).
SwitcherPool ==
  << Attr(<<"_","c","u","t">>,                 TRUE,  TRUE,  0),
     Attr(<<"c","u","t">>,                     TRUE,  TRUE,  0),
     Attr(<<"e","x","e","c","C","u","t">>,     TRUE,  TRUE,  1),
     Attr(<<"g","e","t","C","u","t">>,         TRUE,  TRUE,  0),
     Attr(<<"o","k">>,                         FALSE, TRUE,  0),
     Attr(<<"p","i","n","g">>,                 TRUE,  TRUE,  0),
     Attr(<<"r","a","w">>,                     TRUE,  FALSE, 0),
     Attr(<<"s","e","t","C","u","t">>,         TRUE,  TRUE,  2),
     Attr(<<"s","h","o","r","t","c","u","t">>, TRUE,  TRUE,  3) >>
SwitcherFixed    == {1, 5, 7}
SwitcherOptional == {2, 3, 4, 6, 8, 9}

\* dir(hd): "Play" and "play" share the cache key "play"; the recorder always
\* has Play, add_clip and clear_clips.
HdPool ==
  << Attr(<<"P","l","a","y">>,                             TRUE, TRUE, 1),
     Attr(<<"a","d","d","_","c","l","i","p">>,             TRUE, TRUE, 1),
     Attr(<<"c","l","e","a","r","_","c","l","i","p","s">>, TRUE, TRUE, 0),
     Attr(<<"p","l","a","y">>,                             TRUE, TRUE, 0),
     Attr(<<"s","e","t","P","l","a","y">>,                 TRUE, TRUE, 2) >>
HdFixed    == {1, 2, 3}
HdOptional == {4, 5}

ClearClips == <<"c","l","e","a","r","_","c","l","i","p","s">>
AddClip    == <<"a","d","d","_","c","l","i","p">>

RECURSIVE PickFrom(_, _, _)
PickFrom(pool, keep, i) ==
  IF i > Len(pool) THEN <<>>
  ELSE (IF i \in keep THEN <<pool[i]>> ELSE <<>>) \o PickFrom(pool, keep, i + 1)

Switchers == { PickFrom(SwitcherPool, SwitcherFixed \cup o, 1) : o \in SUBSET SwitcherOptional }
Hds       == { PickFrom(HdPool, HdFixed \cup o, 1) : o \in SUBSET HdOptional }
SwitcherAddresses == {"10.0.0.1"}

(* ------------------------------------------------------------------ *)
(* Capability registry (Mapper._discover_*_methods)                     *)
(* ------------------------------------------------------------------ *)

\* A dict is a sequence of entries in insertion order with unique keys.
HasKey(cache, k) == \E i \in 1..Len(cache) : cache[i].key = k
Get(cache, k)    == cache[CHOOSE i \in 1..Len(cache) : cache[i].key = k]

\* cache[k] = v : an existing key keeps its position, a new one is appended
CachePut(cache, k, v) ==
  IF HasKey(cache, k)
  THEN [i \in 1..Len(cache) |-> IF cache[i].key = k THEN v ELSE cache[i]]
  ELSE Append(cache, v)

RECURSIVE DiscoverMethods(_, _)
DiscoverMethods(attrs, cache) ==
  IF attrs = <<>> THEN cache
  ELSE LET a == Head(attrs) IN
       DiscoverMethods(Tail(attrs),
         IF a.callable /\ ~StartsWith(a.name, <<"_">>)
         THEN IF a.inspectable
              THEN CachePut(cache, Lower(a.name),
                            [key |-> Lower(a.name), name |-> a.name, nparams |-> a.nparams])
              ELSE cache
         ELSE cache)

discover_atem_methods(sw) == DiscoverMethods(sw, <<>>)

discover_hd_methods(h) == DiscoverMethods(h, <<>>)

(* ------------------------------------------------------------------ *)
(* Address resolver (Mapper._find_atem_method / _find_hd_method)        *)
(* ------------------------------------------------------------------ *)

\* first cache entry, in iteration order, whose key contains the address
RECURSIVE PartialMatch(_, _, _)
PartialMatch(cache, clean_address, i) ==
  IF i > Len(cache) THEN None
  ELSE IF Contains(cache[i].key, clean_address) THEN cache[i]
  ELSE PartialMatch(cache, clean_address, i + 1)

RECURSIVE PrefixMatch(_, _, _)
PrefixMatch(cache, clean_address, i) ==
  IF i > Len(Prefixes) THEN PartialMatch(cache, clean_address, 1)
  ELSE IF HasKey(cache, Prefixes[i] \o clean_address)
       THEN Get(cache, Prefixes[i] \o clean_address)
       ELSE PrefixMatch(cache, clean_address, i + 1)

CleanAddress(osc_address) == Lower(LStripSlash(osc_address))

FindMethod(cache, osc_address) ==
  LET clean_address == CleanAddress(osc_address) IN
  IF HasKey(cache, clean_address) THEN Get(cache, clean_address)
  ELSE PrefixMatch(cache, clean_address, 1)

find_atem_method(cache, osc_address) == FindMethod(cache, osc_address)

find_hd_method(cache, osc_address) == FindMethod(cache, osc_address)

(* ------------------------------------------------------------------ *)
(* Argument adapter (the if/elif chain of the two raw handlers)         *)
(* ------------------------------------------------------------------ *)

\* the single-parameter test left out
atem_method_type_mut(P, A) ==
  IF P = A THEN "Direct parameters"
  ELSE IF P = 0 THEN "No parameters"
  ELSE "Partial parameters"

atem_method_type(P, A) ==
  IF P = 1 /\ A >= 1 THEN "Single parameter"
  ELSE IF P = A THEN "Direct parameters"
  ELSE IF P = 0 THEN "No parameters"
  ELSE "Partial parameters"

hd_method_type(P, A) ==
  IF P = 1 /\ A >= 1 THEN "Single parameter"
  ELSE IF P = A THEN "Direct parameters"
  ELSE IF P = 0 THEN "No parameters"
  ELSE "Partial parameters"

\* the argument tuple each branch passes to the method
CallArgs(method_type, args, P) ==
  CASE method_type = "Single parameter"  -> <<args[1]>>
    [] method_type = "Direct parameters" -> args
    [] method_type = "No parameters"     -> <<>>
    [] OTHER                             -> SliceTo(args, P)

\* Outcome of calling a bound method that declares nparams required
\* positional parameters: Python raises TypeError on a wrong count, and the
\* device operation itself may raise.
CallOutcome(nparams, passed, deviceRaises) ==
  IF Len(passed) # nparams THEN "TypeError"
  ELSE IF deviceRaises THEN "DeviceError"
  ELSE "none"


(* ------------------------------------------------------------------ *)
(* What handling one message does to the outside world                  *)
(* ------------------------------------------------------------------ *)

\* calls   : device operations invoked, in order
\* conns   : side-channel connections opened, each with what was sent on it
\* lookups : resolver invocations, each with its registry and its result
\* log     : log events, in order
\* raised  : the exception that left handle_osc_message, or "none"
NoOutcome == [calls |-> <<>>, conns |-> <<>>, lookups |-> <<>>, log |-> <<>>, raised |-> "none"]

Logged(o, event) == [o EXCEPT !.log = Append(@, event)]

\* environment faults: which collaborator operation fails for this message
Faults == {"none", "cap", "clear_clips", "add_clip", "connect"}

(* ------------------------------------------------------------------ *)
(* Mapper.handle_raw_hyperdeck_message                                  *)
(* ------------------------------------------------------------------ *)

handle_raw_hyperdeck_message(o0, cache, address, args, fault) ==
  LET o1 == Logged(Logged(o0, "Raw HyperDeck message received"),
                   "Finding HyperDeck method for address")
      method_info == find_hd_method(cache, address)
      o2 == [o1 EXCEPT !.lookups = Append(@, [domain |-> "hd", address |-> address,
                                               result |-> method_info])]
  IN
  IF method_info = None
  THEN \* warned by the resolver and again by the handler
       Logged(Logged(o2, "No matching HyperDeck method found"),
              "No matching HyperDeck method found")
  ELSE LET P == method_info.nparams
           method_type == hd_method_type(P, Len(args))
           passed == CallArgs(method_type, args, P)
           exc == CallOutcome(P, passed, fault = "cap")
           o3 == [o2 EXCEPT !.calls = Append(@, [dev |-> "hd", name |-> method_info.name,
                                                  nparams |-> P, args |-> passed,
                                                  method_type |-> method_type,
                                                  exc |-> exc])]
       IN IF exc = "none"
          THEN Logged(o3, "HyperDeck method executed successfully")
          ELSE [Logged(o3, "Error executing HyperDeck method") EXCEPT !.raised = exc]

(* ------------------------------------------------------------------ *)
(* Mapper.handle_raw_atem_message                                       *)
(* ------------------------------------------------------------------ *)

handle_raw_atem_message(o0, cache, address, args, fault) ==
  LET o1 == Logged(o0, "Raw OSC message received") IN
  IF address = PingAddr
  THEN Logged(o1, "Ping received")
  ELSE
  LET method_info == find_atem_method(cache, address)
      o2 == [o1 EXCEPT !.lookups = Append(@, [domain |-> "atem", address |-> address,
                                               result |-> method_info])]
  IN
  IF method_info = None
  THEN \* warned by the resolver and again by the handler
       Logged(Logged(o2, "No matching ATEM method found"),
              "No matching ATEM method found")
  ELSE LET P == method_info.nparams
           method_type == atem_method_type(P, Len(args))
           passed == CallArgs(method_type, args, P)
           exc == CallOutcome(P, passed, fault = "cap")
           o3 == [o2 EXCEPT !.calls = Append(@, [dev |-> "atem", name |-> method_info.name,
                                                  nparams |-> P, args |-> passed,
                                                  method_type |-> method_type,
                                                  exc |-> exc])]
       IN IF exc = "none"
          THEN Logged(o3, "ATEM method executed successfully")
          ELSE [Logged(o3, "Error executing ATEM method") EXCEPT !.raised = exc]

(* ------------------------------------------------------------------ *)
(* Mapper.handle_osc_message                                            *)
(* ------------------------------------------------------------------ *)

DirectCall(name, passed, exc) ==
  [dev |-> "hd", name |-> name, nparams |-> Len(passed), args |-> passed,
   method_type |-> "direct", exc |-> exc]

\* add_clip called before clear_clips
LoadClip_mut(o0, args, fault) ==
  IF Len(args) < 1
  THEN Logged(o0, "Missing argument for /hd/load_clip")
  ELSE
  LET file_path == args[1]
      o1 == Logged(o0, "Handling HyperDeck load clip")
      e1 == IF fault = "add_clip" THEN "DeviceError" ELSE "none"
      e2 == IF fault = "clear_clips" THEN "DeviceError" ELSE "none"
      o2 == [o1 EXCEPT !.calls = Append(@, DirectCall(AddClip, <<file_path>>, e1))]
  IN IF e1 # "none"
     THEN Logged(o2, "Error executing HyperDeck load")
     ELSE LET o3 == [o2 EXCEPT !.calls = Append(@, DirectCall(ClearClips, <<>>, e2))]
          IN IF e2 # "none"
             THEN Logged(o3, "Error executing HyperDeck load")
             ELSE Logged(o3, "HyperDeck load executed successfully")

\* the /hd/load_clip branch
LoadClip(o0, args, fault) ==
  IF Len(args) < 1
  THEN Logged(o0, "Missing argument for /hd/load_clip")
  ELSE
  LET file_path == args[1]
      o1 == Logged(o0, "Handling HyperDeck load clip")
      e1 == IF fault = "clear_clips" THEN "DeviceError" ELSE "none"
      e2 == IF fault = "add_clip" THEN "DeviceError" ELSE "none"
      o2 == [o1 EXCEPT !.calls = Append(@, DirectCall(ClearClips, <<>>, e1))]
  IN IF e1 # "none"
     THEN Logged(o2, "Error executing HyperDeck load")
     ELSE LET o3 == [o2 EXCEPT !.calls = Append(@, DirectCall(AddClip, <<file_path>>, e2))]
          IN IF e2 # "none"
             THEN Logged(o3, "Error executing HyperDeck load")
             ELSE Logged(o3, "HyperDeck load executed successfully")

\* s = socket.socket(...); s.connect((switcheraddress, 9993))
Connect(o, host, fault) ==
  IF fault = "connect"
  THEN [o EXCEPT !.raised = "OSError"]
  ELSE [o EXCEPT !.conns = Append(@, [host |-> host, port |-> ControlPort, sent |-> <<>>])]

\* s.send(data) on the connection opened last
Send(o, data) ==
  IF o.raised # "none" THEN o
  ELSE [o EXCEPT !.conns[Len(o.conns)].sent = Append(@, data)]

\* the four `if address.startswith(...)` statements, run one after another;
\* a statement is skipped once an exception is propagating
RecordOn(o, address, host, fault) ==
  IF o.raised = "none" /\ StartsWith(address, RecordOnAddr)
  THEN Send(Connect(Logged(o, "Record on"), host, fault), <<"record\n">>)
  ELSE o

RecordOff(o, address, host, fault) ==
  IF o.raised = "none" /\ StartsWith(address, RecordOffAddr)
  THEN Send(Connect(Logged(o, "Stop"), host, fault), <<"stop\n">>)
  ELSE o

StreamOn(o, address, args, host, fault) ==
  IF o.raised = "none" /\ StartsWith(address, StreamOnAddr)
  THEN LET c == Connect(o, host, fault) IN
       IF c.raised # "none" THEN c
       ELSE IF Len(args) < 2 THEN [c EXCEPT !.raised = "IndexError"]
       ELSE Send(Logged(c, "Stream on"),
                 <<"stream start: url: ", args[1], " key: ", args[2], "\n">>)
  ELSE o

StreamOff(o, address, host, fault) ==
  IF o.raised = "none" /\ StartsWith(address, StreamOffAddr)
  THEN Send(Connect(Logged(o, "Stop stream"), host, fault), <<"stream stop\n">>)
  ELSE o

handle_osc_message(atem_cache, hd_cache, host, address, args, fault) ==
  LET o0 == Logged(NoOutcome, "OSC message received") IN
  IF StartsWith(address, RawAtemPrefix)
  THEN handle_raw_atem_message(o0, atem_cache, SliceFrom(address, RawAtemCut), args, fault)
  ELSE IF StartsWith(address, RawHdPrefix)
  THEN handle_raw_hyperdeck_message(o0, hd_cache, SliceFrom(address, RawHdCut), args, fault)
  ELSE IF StartsWith(address, LoadClipAddr)
  THEN LoadClip(o0, args, fault)
  ELSE StreamOff(StreamOn(RecordOff(RecordOn(o0, address, host, fault),
                                    address, host, fault),
                          address, args, host, fault),
                 address, host, fault)


(* ------------------------------------------------------------------ *)
(* osctoatem.main                                                       *)
(* ------------------------------------------------------------------ *)

\* parameters Mapper.__init__ declares after self
MapperInitParams == 3
\* arguments main passes in Mapper(atem)
MainMapperArgs == 1

MainFaults == {"none", "connect", "waitForConnection", "server"}

\* One run of main: the steps it performs, how it ends, and the exception
\* that leaves it.  serve_forever only returns by an exception or interrupt.
main(skip_connect_check, fault) ==
  LET t1 == <<"connect">> IN
  IF fault = "connect"
  THEN [pc |-> "returned", trace |-> t1, exc |-> "none"]
  ELSE
  LET t2 == IF skip_connect_check THEN t1 ELSE Append(t1, "waitForConnection") IN
  IF ~skip_connect_check /\ fault = "waitForConnection"
  THEN [pc |-> "returned", trace |-> t2, exc |-> "none"]
  ELSE
  LET t3 == Append(t2, "Dispatcher") IN
  IF MainMapperArgs # MapperInitParams
  THEN [pc |-> "crashed", trace |-> t3, exc |-> "TypeError"]
  ELSE
  LET t4 == t3 \o <<"Mapper", "set_default_handler">>
      t5 == IF fault = "server"
            THEN Append(t4, "BlockingOSCUDPServer")
            ELSE t4 \o <<"BlockingOSCUDPServer", "serve_forever">>
  IN [pc |-> "exited", trace |-> Append(t5, "disconnect"), exc |-> "none"]

(* ------------------------------------------------------------------ *)
(* Inputs                                                               *)
(* ------------------------------------------------------------------ *)

ArgValues == <<"rtmp://x", "key1", "v3", "v4", "v5", "v6">>
ArgLists  == { [i \in 1..n |-> ArgValues[i]] : n \in 0..MaxArgs }

InnerNames ==
  { <<>>, <<"/">>, <<"c","u","t">>, <<"/","C","u","t">>, <<"u","t">>,
    <<"p","i","n","g">>, <<"/","p","i","n","g">>, <<"z","z">>,
    <<"e","x","e","c","c","u","t">>, <<"s","e","t","c","u","t">>,
    <<"p","l","a","y">>, <<"c","l","i","p">> }

Addresses ==
  { p \o n : p \in {RawAtemPrefix, RawHdPrefix}, n \in InnerNames }
  \cup { <<"/">> \o n : n \in {<<"c","u","t">>, <<"p","i","n","g">>, <<"z","z">>} }
  \cup { LoadClipAddr, RecordOnAddr, RecordOffAddr, StreamOnAddr, StreamOffAddr }

(* ------------------------------------------------------------------ *)
(* State                                                                *)
(* ------------------------------------------------------------------ *)

VARIABLES
  switcher,            \* Mapper.switcher: the attributes dir() lists
  hd,                  \* Mapper.hd
  switcheraddress,     \* Mapper.switcheraddress
  atem_method_cache,   \* Mapper._atem_method_cache
  hd_method_cache,     \* Mapper._hd_method_cache
  pc,                  \* "idle", "pending" (a message was delivered), "done"
  address,             \* the message being handled
  args,
  outcome,             \* what handling it did, see NoOutcome
  main_run             \* the run of the start-up script

vars == <<switcher, hd, switcheraddress, atem_method_cache, hd_method_cache,
          pc, address, args, outcome, main_run>>

mapper_fields == <<switcher, hd, switcheraddress, atem_method_cache, hd_method_cache>>

\* Mapper.__init__(switcher, hd, switcheraddress); main not yet run
Init ==
  /\ switcher \in Switchers
  /\ hd \in Hds
  /\ switcheraddress \in SwitcherAddresses
  /\ atem_method_cache = discover_atem_methods(switcher)
  /\ hd_method_cache = discover_hd_methods(hd)
  /\ pc = "idle"
  /\ address = <<>>
  /\ args = <<>>
  /\ outcome = NoOutcome
  /\ main_run = [pc |-> "start", trace |-> <<>>, exc |-> "none"]

\* the transport hands a message to the default handler
Deliver ==
  /\ pc = "idle"
  /\ \E a \in Addresses, ar \in ArgLists :
       /\ address' = a
       /\ args' = ar
  /\ pc' = "pending"
  /\ UNCHANGED <<mapper_fields, outcome, main_run>>

\* handle_osc_message(address, *args) runs to completion
HandleOscMessage ==
  /\ pc = "pending"
  /\ \E fault \in Faults :
       outcome' = handle_osc_message(atem_method_cache, hd_method_cache,
                                     switcheraddress, address, args, fault)
  /\ pc' = "done"
  /\ UNCHANGED <<mapper_fields, address, args, main_run>>

\* the handler has returned (or raised); nothing of the message is retained
Return ==
  /\ pc = "done"
  /\ pc' = "idle"
  /\ address' = <<>>
  /\ args' = <<>>
  /\ outcome' = NoOutcome
  /\ UNCHANGED <<mapper_fields, main_run>>

\* the script is run
Main ==
  /\ main_run.pc = "start"
  /\ \E skip \in BOOLEAN, fault \in MainFaults :
       main_run' = main(skip, fault)
  /\ UNCHANGED <<mapper_fields, pc, address, args, outcome>>

Next == Deliver \/ HandleOscMessage \/ Return \/ Main

Spec == Init /\ [][Next]_vars


(* ------------------------------------------------------------------ *)
(* Properties                                                           *)
(* ------------------------------------------------------------------ *)

Done == pc = "done"

IsRawAtem == StartsWith(address, RawAtemPrefix)
IsRawHd   == StartsWith(address, RawHdPrefix)
SideChannelAddrs == {RecordOnAddr, RecordOffAddr, StreamOnAddr, StreamOffAddr}

Range(s) == { s[i] : i \in 1..Len(s) }

\* the resolution order of the resolver, stated over the registry as a set
Keys(cache) == { e.key : e \in Range(cache) }
Entry(cache, k) == CHOOSE e \in Range(cache) : e.key = k
Resolves(cache, a, r) ==
  LET ks == Keys(cache)
      ex == <<"e","x","e","c">> \o a
      st == <<"s","e","t">> \o a
      gt == <<"g","e","t">> \o a
  IN IF a \in ks THEN r = Entry(cache, a)
     ELSE IF ex \in ks THEN r = Entry(cache, ex)
     ELSE IF st \in ks THEN r = Entry(cache, st)
     ELSE IF gt \in ks THEN r = Entry(cache, gt)
     ELSE IF \E e \in Range(cache) : Contains(e.key, a)
          THEN r \in Range(cache) /\ Contains(r.key, a)
          ELSE r = None

CacheOf(domain) == IF domain = "atem" THEN atem_method_cache ELSE hd_method_cache

\* C1: a message whose address is neither raw passthrough nor a special
\* command (nor /ping) is resolved against the Switcher registry, and the
\* capability found is invoked.
C1_DefaultSwitcherMethod ==
  (/\ Done
   /\ ~IsRawAtem /\ ~IsRawHd
   /\ address \notin (SideChannelAddrs \cup {LoadClipAddr, PingAddr}))
  => LET r == FindMethod(atem_method_cache, address) IN
     r # None => \E c \in Range(outcome.calls) : c.dev = "atem" /\ c.name = r.name

\* the shape the precedence of the adapter selects for P parameters and the
\* argument list ar, and the arguments it passes
ShapeIs(c, ar) ==
  LET P == c.nparams
      A == Len(ar)
  IN IF P = 1 /\ A >= 1
     THEN c.method_type = "Single parameter" /\ c.args = <<ar[1]>>
     ELSE IF P = A
     THEN c.method_type = "Direct parameters" /\ c.args = ar
     ELSE IF P = 0
     THEN c.method_type = "No parameters" /\ c.args = <<>>
     ELSE /\ c.method_type = "Partial parameters"
          /\ c.args = [i \in 1..(IF P < A THEN P ELSE A) |-> ar[i]]

RegistryCalls == { c \in Range(outcome.calls) : c.method_type # "direct" }

\* C2 (as amended): every capability invoked through a registry, in either
\* handler, is invoked in the one shape the precedence selects, and the
\* truncated shape is chosen only when P # A, P # 0 and not (P = 1 and A >= 1);
\* it is chosen for P = 1 when the argument list is empty.
C2_ShapePrecedence ==
  Done => \A c \in RegistryCalls :
            /\ ShapeIs(c, args)
            /\ c.method_type = "Partial parameters"
                 => /\ c.nparams # Len(args)
                    /\ c.nparams # 0
                    /\ ~(c.nparams = 1 /\ Len(args) >= 1)

\* C2 as stated: the truncated shape is chosen only when P # A, P # 1, P # 0.
C2_TruncatedOnlyWhenNotOne ==
  Done => \A c \in RegistryCalls :
            /\ ShapeIs(c, args)
            /\ c.method_type = "Partial parameters"
                 => (c.nparams # Len(args) /\ c.nparams # 1 /\ c.nparams # 0)

C2_Witness ==
  /\ Done
  /\ \E c \in RegistryCalls :
       c.method_type = "Partial parameters" /\ c.nparams = 1 /\ args = <<>>

\* C3: every resolver invocation returns the first match in the order exact,
\* exec+address, set+address, get+address, a capability whose name contains
\* the address; and not-found exactly when none of these exists.
C3_ResolverOrder ==
  Done => \A l \in Range(outcome.lookups) :
            Resolves(CacheOf(l.domain), Lower(LStripSlash(l.address)), l.result)

C3_Witness ==
  /\ Done
  /\ \E l \in Range(outcome.lookups) :
       /\ l.address = <<"/","C","u","t">>
       /\ l.result # None
       /\ l.result.key = <<"s","e","t","c","u","t">>
       /\ <<"g","e","t","c","u","t">> \in Keys(CacheOf(l.domain))

\* C4: a ping message (/ping, /raw/atem/ping) is a no-op acknowledgement: it
\* never reaches the resolver, so no registry lookup is performed and no
\* device capability is invoked, whatever the registry contains.
C4_PingNeverResolved ==
  (Done /\ address \in {PingAddr, RawAtemPrefix \o <<"p","i","n","g">>})
  => /\ outcome.lookups = <<>>
     /\ outcome.calls = <<>>

\* C5: /hd/load_clip with an argument calls clear_clips and then
\* add_clip(args[0]) on the recorder, add_clip only after clear_clips has
\* completed; with no argument nothing at all is called.
C5_LoadClipOrder ==
  (Done /\ address = LoadClipAddr)
  => /\ outcome.conns = <<>> /\ outcome.lookups = <<>>
     /\ IF args = <<>>
        THEN outcome.calls = <<>>
        ELSE /\ Len(outcome.calls) \in {1, 2}
             /\ outcome.calls[1].name = ClearClips
             /\ outcome.calls[1].args = <<>>
             /\ outcome.calls[1].dev = "hd"
             /\ (Len(outcome.calls) = 2) = (outcome.calls[1].exc = "none")
             /\ Len(outcome.calls) = 2
                  => /\ outcome.calls[2].name = AddClip
                     /\ outcome.calls[2].args = <<args[1]>>
                     /\ outcome.calls[2].dev = "hd"

C5_Witness ==
  /\ Done /\ address = LoadClipAddr
  /\ Len(outcome.calls) = 2
  /\ outcome.calls[2].exc = "none"
  /\ Len(args) = 2

ExpectedCommand ==
  CASE address = RecordOnAddr  -> <<"record\n">>
    [] address = RecordOffAddr -> <<"stop\n">>
    [] address = StreamOffAddr -> <<"stream stop\n">>
    [] OTHER -> <<"stream start: url: ", args[1], " key: ", args[2], "\n">>

\* C6: a record/stream message, whatever its arguments, opens exactly one
\* connection to port 9993 of the switcher host (when the connection can be
\* made) and writes exactly one command on it; no connection carries zero or
\* several commands.
C6_OneCommandPerConnection ==
  (Done /\ address \in SideChannelAddrs)
  => /\ Len(outcome.conns) <= 1
     /\ outcome.raised # "OSError" => Len(outcome.conns) = 1
     /\ \A c \in Range(outcome.conns) :
          /\ c.host = switcheraddress /\ c.port = 9993
          /\ Len(c.sent) = 1
          /\ (address = StreamOnAddr => Len(args) >= 2) => c.sent[1] = ExpectedCommand

ErrorEvents == {"Error executing ATEM method", "Error executing HyperDeck method",
                "Error executing HyperDeck load"}
C8_FaultsReRaised ==
  Done => \A c \in Range(outcome.calls) :
            c.exc # "none"
              => /\ outcome.raised = c.exc
                 /\ \E e \in ErrorEvents : e \in Range(outcome.log)

\* C9: a run of main that connected to the switcher constructs the Mapper,
\* registers the handler, creates the server, and ends by disconnecting.
C9_StartupReachesServing ==
  (main_run.pc # "start" /\ "Dispatcher" \in Range(main_run.trace))
  => /\ {"Mapper", "set_default_handler", "BlockingOSCUDPServer"} \subseteq Range(main_run.trace)
     /\ main_run.trace[Len(main_run.trace)] = "disconnect"

\* C10: a raw message that names no capability (its remainder is empty or
\* only slashes) resolves to not-found and invokes nothing.
C10_EmptyNameNotFound ==
  (Done /\ (IsRawAtem \/ IsRawHd)
        /\ \E n \in {<<>>, <<"/">>} : address \in {RawAtemPrefix \o n, RawHdPrefix \o n})
  => /\ outcome.calls = <<>>
     /\ \A l \in Range(outcome.lookups) : l.result = None

====
